---- MODULE Spec2Model ----
(***************************************************************************)
(* PyModSecurityMiddleware (django_pymodsecurity/middleware.py).           *)
(*                                                                         *)
(* The constructor loads the rule sources (load_rule_files, load_rules),   *)
(* then __call__ runs each request through the six inspection phases of a  *)
(* fresh ModSecurity transaction, asking process_intervention after each.  *)
(* The engine (ModSecurity.Rules, ModSecurity.Transaction), glob, the      *)
(* logger and the wrapped get_response are the environment: what they      *)
(* return is drawn from the small sets below.                              *)
(*                                                                         *)
(* Python values: a str is a tuple of one-character strings, None is the   *)
(* string "None" where the other values are strings, and a record of kind  *)
(* "None" where they are records.                                          *)
(***************************************************************************)
EXTENDS Integers, Sequences, FiniteSets, TLC

\* ------------------------------------------------------------- bounds
MaxPatterns == 2      \* longest list of patterns handed to load_rule_files
MaxDirectCalls == 1   \* calls of the load methods made after construction
NumRequests == 1      \* requests in flight on the one middleware instance
NumConcurrent == 2    \* requests in flight where only their interleaving counts
MaxEngineRecords == 1 \* records the engine hands to modsecurity_log_callback

\* -------------------------------------------------------- environment
Patterns == {"a*.conf", "**/*.conf"}
Files == {"a1.conf", "a2.conf", "b/c.conf"}
\* glob.glob(pattern, recursive=True) on the file system of the model
Glob(pattern) ==
    CASE pattern = "a*.conf" -> <<"a1.conf", "a2.conf">>
      [] pattern = "**/*.conf" -> <<"a2.conf", "b/c.conf">>
      [] OTHER -> <<>>
\* what Rules.loadFromUri / Rules.load can answer: negative is a parse error
LoadCounts == {-1, 0, 2}

SeqsUpTo(S, n) == UNION {[1..k -> S] : k \in 0..n}

\* a Python argument or setting: None, a str or a list
NoSetting == [type |-> "None", val |-> <<>>]
Str(s) == [type |-> "str", val |-> s]
List(l) == [type |-> "list", val |-> l]

\* the settings module: MODSECURITY_RULE_FILES and MODSECURITY_RULES
RuleFilesSettings ==
    {NoSetting, Str(<<"a*.conf">>), List(<<"**/*.conf", "a*.conf">>)}
RuleLinesSettings ==
    {NoSetting, Str(<<"r">>), List(<< <<"r">>, <<"r", "s">> >>), List(<<>>)}

\* what a caller other than the constructor hands to the load methods
DirectRuleFiles == {List(ps) : ps \in SeqsUpTo(Patterns, MaxPatterns)}
DirectRules == {NoSetting, Str(<<>>), Str(<<"r">>)}

VARIABLES
    settings,       \* django.conf.settings: [rule_files, rule_lines]
    parser,         \* the engine's parser: [uri: file -> count, text: count]
    engine,         \* the engine's rules at work: what a check can answer
    cpc,            \* where the constructor or a load method is
    rule_files,     \* self.rule_files
    rule_lines,     \* self.rule_lines
    rules_count,    \* self._rules_count
    logger,         \* the records self.logger received, in order
    loadCalls,      \* the calls self.rules received, in order
    call,           \* the load method last called: who called, with what, and
                    \* the count, engine calls and log records at its entry
    before_count,   \* load_rule_files: before_count
    matched,        \* load_rule_files: the files the two loops go through
    fileIdx,        \* load_rule_files: the next file of matched
    returned,       \* what load_rule_files and load_rules last returned
    directCalls     \* calls of the load methods made after construction

VARIABLES
    pc,                 \* where each request's __call__ is
    request,            \* __call__: request (which of RequestSamples; 0 before)
    transaction,        \* __call__: transaction (0 before it is created)
    calls,              \* the calls each request's execution made, in order
    site,               \* process_intervention: the phase it was called after
    intervention,       \* process_intervention: intervention
    hdrIdx,             \* the position of the header loop's iterator
    original_response,  \* __call__: what get_response returned
    response            \* what __call__ returned

reqVars == <<pc, request, transaction, calls, site, intervention,
             hdrIdx, original_response, response>>

loadVars == <<settings, parser, engine, cpc, rule_files, rule_lines, rules_count,
              logger, loadCalls, call, before_count, matched, fileIdx, returned,
              directCalls>>

\* ---------------------------------------------------- pure helpers
RECURSIVE Flatten(_)
Flatten(ss) == IF ss = <<>> THEN <<>> ELSE Head(ss) \o Flatten(Tail(ss))

RECURSIVE Join(_, _)
\* sep.join(lines)
Join(sep, lines) ==
    IF lines = <<>> THEN <<>>
    ELSE IF Len(lines) = 1 THEN Head(lines)
    ELSE Head(lines) \o sep \o Join(sep, Tail(lines))

\* line 31-33: a str becomes a one-element list
NormalizeRuleFiles(setting) ==
    IF setting.type = "str" THEN List(setting.val) ELSE setting

\* line 35-37: a list is joined with newlines
NormalizeRuleLines(setting) ==
    IF setting.type = "list" THEN Str(Join(<<"\n">>, setting.val)) ELSE setting

\* line 62-63: the files the nested loops visit, in order
MatchedFiles(patterns) == Flatten([i \in 1..Len(patterns) |-> Glob(patterns[i])])

NotReturned == [called |-> FALSE, value |-> 0]
Return(v) == [called |-> TRUE, value |-> v]

NoCall ==
    [method |-> "None", by |-> "None", arg |-> NoSetting,
     at |-> [rules_count |-> 0, loads |-> 0, logs |-> 0]]
\* method is entered by caller `by` with argument arg
Entered(method, by, arg, count, loads, log) ==
    [method |-> method, by |-> by, arg |-> arg,
     at |-> [rules_count |-> count, loads |-> Len(loads), logs |-> Len(log)]]

\* line 65 and 85: a negative count is a failure
LoadFailed(count) == count < 0

\* lines 65-70 and 85-90: only the count of a load that did not fail is added
CountAfterLoadMutAddsAll(total, count) == total + count
CountAfterLoad(total, count) == IF LoadFailed(count) THEN total ELSE total + count

\* lines 66-68 and 86-88: a failure is logged as a warning
LogAfterLoad(log, count, msg) ==
    IF LoadFailed(count) THEN Append(log, <<"warning", msg>>) ELSE log

\* line 72: load_rule_files returns the delta
LoadRuleFilesReturnMutTotal(now, before) == now
LoadRuleFilesReturn(now, before) == now - before

\* line 81: the texts load_rules does not hand to the engine
LoadRulesSkipsMutOnlyNone(rules) == rules.type = "None"
LoadRulesSkips(rules) == rules.type = "None" \/ Len(rules.val) <= 0

\* line 92: load_rules returns the engine's count as it is
LoadRulesReturn(count) == count

\* ------------------------------------------------------ constructor
InitLoadVars ==
    /\ cpc = "init"
    /\ rule_files = NoSetting
    /\ rule_lines = NoSetting
    /\ rules_count = 0
    /\ logger = <<>>
    /\ loadCalls = <<>>
    /\ call = NoCall
    /\ before_count = 0
    /\ matched = <<>>
    /\ fileIdx = 1
    /\ returned = [load_rule_files |-> NotReturned, load_rules |-> NotReturned]
    /\ directCalls = 0

\* load_rule_files, lines 60-63: entered by caller `by` with rule_files = arg
EnterLoadRuleFiles(by, arg) ==
    /\ call' = Entered("load_rule_files", by, arg, rules_count', loadCalls, logger)
    /\ before_count' = rules_count'
    /\ matched' = MatchedFiles(arg.val)
    /\ fileIdx' = 1
    /\ returned' = [returned EXCEPT !.load_rule_files = NotReturned]
    /\ cpc' = "load_rule_files"
    /\ UNCHANGED <<logger, loadCalls>>

\* load_rules, lines 81-92, called by `by` with rules = arg
DoLoadRules(by, arg) ==
    /\ call' = Entered("load_rules", by, arg, rules_count, loadCalls, logger)
    /\ IF LoadRulesSkips(arg)
       THEN /\ returned' = [returned EXCEPT !.load_rules = Return(0)]
            /\ UNCHANGED <<rules_count, logger, loadCalls>>
       ELSE LET count == parser.text
            IN /\ loadCalls' = Append(loadCalls,
                     [op |-> "load", arg |-> arg.val, count |-> count])
               /\ rules_count' = CountAfterLoad(rules_count, count)
               /\ logger' = LogAfterLoad(logger, count, <<"load_rules">>)
               /\ returned' = [returned EXCEPT !.load_rules =
                                   Return(LoadRulesReturn(count))]

\* __init__, lines 23-41: up to the call of load_rule_files
Construct ==
    /\ cpc = "init"
    /\ rule_files' = NormalizeRuleFiles(settings.rule_files)
    /\ rule_lines' = NormalizeRuleLines(settings.rule_lines)
    /\ rules_count' = 0
    /\ IF rule_files'.type # "None"
       THEN EnterLoadRuleFiles("__init__", rule_files')
       ELSE /\ cpc' = "load_rules"
            /\ UNCHANGED <<call, before_count, matched, fileIdx, returned, logger,
                           loadCalls>>
    /\ UNCHANGED <<settings, parser, engine, directCalls>>
    /\ UNCHANGED reqVars

\* load_rule_files, lines 64-70: one pass of the inner loop
LoadRuleFile ==
    /\ cpc = "load_rule_files"
    /\ fileIdx <= Len(matched)
    /\ LET rule_file == matched[fileIdx]
           count == parser.uri[rule_file]
       IN /\ loadCalls' = Append(loadCalls,
                [op |-> "loadFromUri", arg |-> rule_file, count |-> count])
          /\ rules_count' = CountAfterLoad(rules_count, count)
          /\ logger' = LogAfterLoad(logger, count, <<"load_rule_files", rule_file>>)
    /\ fileIdx' = fileIdx + 1
    /\ UNCHANGED <<settings, parser, engine, cpc, rule_files, rule_lines, call, before_count,
                   matched, returned, directCalls>>
    /\ UNCHANGED reqVars

\* load_rule_files, line 72: the loops are over; back in the caller
LoadRuleFilesDone ==
    /\ cpc = "load_rule_files"
    /\ fileIdx > Len(matched)
    /\ returned' = [returned EXCEPT !.load_rule_files =
                        Return(LoadRuleFilesReturn(rules_count, before_count))]
    /\ cpc' = IF call.by = "__init__" THEN "load_rules" ELSE "ready"
    /\ UNCHANGED <<settings, parser, engine, rule_files, rule_lines, rules_count, logger,
                   loadCalls, call, before_count, matched, fileIdx, directCalls>>
    /\ UNCHANGED reqVars

\* __init__, lines 43-44
ConstructLoadRules ==
    /\ cpc = "load_rules"
    /\ IF rule_lines.type # "None"
       THEN DoLoadRules("__init__", rule_lines)
       ELSE UNCHANGED <<call, rules_count, logger, loadCalls, returned>>
    /\ cpc' = "ready"
    /\ UNCHANGED <<settings, parser, engine, rule_files, rule_lines, before_count,
                   matched, fileIdx, directCalls>>
    /\ UNCHANGED reqVars

\* load_rule_files called on the constructed middleware
DirectLoadRuleFiles ==
    /\ cpc = "ready"
    /\ directCalls < MaxDirectCalls
    /\ directCalls' = directCalls + 1
    /\ rules_count' = rules_count
    /\ \E arg \in DirectRuleFiles : EnterLoadRuleFiles("direct", arg)
    /\ UNCHANGED <<settings, parser, engine, rule_files, rule_lines>>
    /\ UNCHANGED reqVars

\* load_rules called on the constructed middleware
DirectLoadRules ==
    /\ cpc = "ready"
    /\ directCalls < MaxDirectCalls
    /\ directCalls' = directCalls + 1
    /\ \E arg \in DirectRules : DoLoadRules("direct", arg)
    /\ UNCHANGED <<settings, parser, engine, cpc, rule_files, rule_lines, before_count,
                   matched, fileIdx>>
    /\ UNCHANGED reqVars

\* ----------------------------------------------------------- requests
Requests == 1..NumRequests

\* request.META keys, as Python strings
REMOTE_ADDR == <<"R","E","M","O","T","E","_","A","D","D","R">>
SERVER_NAME == <<"S","E","R","V","E","R","_","N","A","M","E">>
SERVER_PORT == <<"S","E","R","V","E","R","_","P","O","R","T">>
CONTENT_TYPE == <<"C","O","N","T","E","N","T","_","T","Y","P","E">>
HTTP_HOST == <<"H","T","T","P","_","H","O","S","T">>
HTTP_X == <<"H","T","T","P","_","X">>
HTTPS == <<"H","T","T","P","S">>
HTTP_PREFIX == <<"H","T","T","P","_">>

\* the requests Django hands to the middleware: META in insertion order
RequestSamples == <<
    [META |-> << <<REMOTE_ADDR, "10.0.0.1">>, <<HTTP_HOST, "example.org">>,
                 <<SERVER_NAME, "srv">>, <<CONTENT_TYPE, "text/plain">>,
                 <<SERVER_PORT, <<"8","0">> >>, <<HTTPS, "on">>,
                 <<HTTP_X, "1">> >>,
     port |-> <<"8","0","8","0">>, path |-> "/a", method |-> "POST",
     body |-> "payload"],
    [META |-> << <<SERVER_PORT, <<"4","4","3">> >>, <<SERVER_NAME, "srv">>,
                 <<REMOTE_ADDR, "10.0.0.2">>, <<HTTP_PREFIX, "odd">> >>,
     port |-> <<"4","4","3">>, path |-> "/", method |-> "GET",
     body |-> ""] >>

\* a response object: who made it, its class, and what it carries
NoResponse ==
    [by |-> "None", kind |-> "None", status_code |-> 0, headers |-> <<>>,
     content |-> "", url |-> "None"]
\* django.http.HttpResponseRedirect(url), made by the middleware
HttpResponseRedirect(url) ==
    [by |-> "middleware", kind |-> "HttpResponseRedirect", status_code |-> 302,
     headers |-> << <<"Location", url>> >>, content |-> "", url |-> url]
\* django.http.HttpResponse(status=status), made by the middleware
HttpResponse(status) ==
    [by |-> "middleware", kind |-> "HttpResponse", status_code |-> status,
     headers |-> <<>>, content |-> "", url |-> "None"]
\* what the wrapped get_response can answer
HandlerResponses == {
    [by |-> "get_response", kind |-> "HttpResponse", status_code |-> 200,
     headers |-> << <<"Content-Type", "text/html">>, <<"X-Frame-Options", "DENY">> >>,
     content |-> "page", url |-> "None"],
    [by |-> "get_response", kind |-> "HttpResponse", status_code |-> 403,
     headers |-> <<>>, content |-> "", url |-> "None"] }

\* ModSecurity.ModSecurityIntervention(): a fresh object (line 172)
NoIntervention ==
    [ret |-> FALSE, disruptive |-> FALSE, status |-> 200, url |-> "None",
     log |-> "None"]
\* what transaction.intervention(intervention) can answer and fill in
Verdicts ==
    {NoIntervention, [NoIntervention EXCEPT !.log = "matched"]}
    \cup [ret : {TRUE}, disruptive : BOOLEAN, status : {200, 403},
          url : {"None", "/blocked"}, log : {"None", "matched"}]

\* an engine whose rules are not known: any check can answer anything
AnyVerdict == [kind |-> "free", answers |-> Verdicts]

\* the six phases, by the call that completes each
Phases == <<"processConnection", "processURI", "processRequestHeaders",
            "processRequestBody", "processResponseHeaders", "processResponseBody">>

\* dict lookup: meta[key]
MetaGet(meta, key) ==
    LET i == CHOOSE j \in 1..Len(meta) : meta[j][1] = key IN meta[i][2]

Digits == <<"0", "1", "2", "3", "4", "5", "6", "7", "8", "9">>
DigitOf(c) == (CHOOSE i \in 1..10 : Digits[i] = c) - 1
RECURSIVE ParseInt(_)
\* int(s) of a decimal string
ParseInt(s) ==
    IF s = <<>> THEN 0
    ELSE 10 * ParseInt(SubSeq(s, 1, Len(s) - 1)) + DigitOf(s[Len(s)])

\* key.startswith(prefix)
StartsWith(key, prefix) ==
    Len(key) >= Len(prefix) /\ SubSeq(key, 1, Len(prefix)) = prefix

\* _iter_headers, lines 141-142: the items the generator does not skip
IterHeadersKeepMutNoUnderscore(key) == StartsWith(key, <<"H", "T", "T", "P">>)
IterHeadersKeep(key) == StartsWith(key, HTTP_PREFIX)

RECURSIVE KeptItems(_)
KeptItems(meta) ==
    IF meta = <<>> THEN <<>>
    ELSE (IF IterHeadersKeep(Head(meta)[1]) THEN <<Head(meta)>> ELSE <<>>)
         \o KeptItems(Tail(meta))

\* _iter_headers, line 143: key[5:]
StripPrefix(key) == SubSeq(key, 6, Len(key))

\* _iter_headers, lines 140-143: what the generator yields, in order
IterHeaders(meta) ==
    LET kept == KeptItems(meta)
    IN [i \in 1..Len(kept) |-> <<StripPrefix(kept[i][1]), kept[i][2]>>]

\* one call made while a request is handled: tx is the transaction it went
\* to (0: not the engine), out what came back from it
Call(op, tx, args, out) == [op |-> op, tx |-> tx, args |-> args, out |-> out]

\* process_intervention, lines 177-189: what it returns
process_interventionMutStatusFirst(iv) ==
    IF ~iv.ret THEN NoResponse
    ELSE IF ~iv.disruptive THEN NoResponse
    ELSE IF iv.status # 200 THEN HttpResponse(iv.status)
    ELSE IF iv.url # "None" THEN HttpResponseRedirect(iv.url)
    ELSE HttpResponse(iv.status)
process_intervention(iv) ==
    IF ~iv.ret THEN NoResponse
    ELSE IF ~iv.disruptive THEN NoResponse
    ELSE IF iv.url # "None" THEN HttpResponseRedirect(iv.url)
    ELSE HttpResponse(iv.status)

\* process_intervention, lines 177-180: what reaches the logger
InterventionLogMutOnlyDisruptive(log, iv) ==
    IF iv.ret /\ iv.disruptive /\ iv.log # "None"
    THEN Append(log, <<"info", iv.log>>) ELSE log
InterventionLog(log, iv) ==
    IF iv.ret /\ iv.log # "None" THEN Append(log, <<"info", iv.log>>) ELSE log

\* where a request goes on when the check after phase s returned None
ContinueMutBodyBeforeHeaders(s) ==
    CASE s = 1 -> "processURI"
      [] s = 2 -> "appendRequestBody"
      [] s = 3 -> "appendRequestBody"
      [] s = 4 -> "get_response"
      [] s = 5 -> "appendResponseBody"
      [] OTHER -> "done"
ContinueMutSkipsResponseBody(s) ==
    CASE s = 1 -> "processURI"
      [] s = 2 -> "addRequestHeader"
      [] s = 3 -> "appendRequestBody"
      [] s = 4 -> "get_response"
      [] s = 5 -> "processResponseBody"
      [] OTHER -> "done"
Continue(s) ==
    CASE s = 1 -> "processURI"
      [] s = 2 -> "addRequestHeader"
      [] s = 3 -> "appendRequestBody"
      [] s = 4 -> "get_response"
      [] s = 5 -> "appendResponseBody"
      [] OTHER -> "done"

\* lines 119-120, 124-125, 132-133, 138 with 100-101, 157-158, 164
AfterInterventionMutIgnoresURI(s, result) ==
    IF result.kind # "None" /\ s # 2 THEN "done" ELSE Continue(s)
AfterInterventionMutIgnoresBody(s, result) ==
    IF result.kind # "None" /\ s # 4 THEN "done" ELSE Continue(s)
AfterIntervention(s, result) ==
    IF result.kind # "None" THEN "done" ELSE Continue(s)

\* what __call__ returns once the check after phase s has returned result
ReturnedResponseMutDropsOriginal(s, result, original) ==
    IF result.kind # "None" THEN result ELSE NoResponse
ReturnedResponseMutRebuilds(s, result, original) ==
    IF result.kind # "None" THEN result
    ELSE IF s = 6 THEN [original EXCEPT !.headers = <<>>]
    ELSE NoResponse
ReturnedResponse(s, result, original) ==
    IF result.kind # "None" THEN result
    ELSE IF s = 6 THEN original
    ELSE NoResponse

InitReqVars ==
    /\ pc = [r \in Requests |-> "idle"]
    /\ request = [r \in Requests |-> 0]
    /\ transaction = [r \in Requests |-> 0]
    /\ calls = [r \in Requests |-> <<>>]
    /\ site = [r \in Requests |-> 0]
    /\ intervention = [r \in Requests |-> NoIntervention]
    /\ hdrIdx = [r \in Requests |-> 0]
    /\ original_response = [r \in Requests |-> NoResponse]
    /\ response = [r \in Requests |-> NoResponse]

Req(r) == RequestSamples[request[r]]

\* line 95: ModSecurity.Transaction(...) makes a new object on every call;
\* the object is named after the call that made it
TransactionMutShared(r) == 1
Transaction(r) == r

\* one engine call on r's transaction, moving r to pc value next
EngineCallMutNoCheckAfterURI(r, op, args, next) ==
    /\ calls' = [calls EXCEPT ![r] = Append(@, Call(op, transaction[r], args, "None"))]
    /\ pc' = [pc EXCEPT ![r] = IF op = "processURI" THEN "addRequestHeader" ELSE next]
EngineCall(r, op, args, next) ==
    /\ calls' = [calls EXCEPT ![r] = Append(@, Call(op, transaction[r], args, "None"))]
    /\ pc' = [pc EXCEPT ![r] = next]

\* a phase is complete: process_intervention is entered (line 172)
EnterInterventionMutSharedObject(r, s) ==
    /\ site' = [site EXCEPT ![r] = s]
    /\ intervention' = [q \in DOMAIN intervention |-> NoIntervention]
EnterIntervention(r, s) ==
    /\ site' = [site EXCEPT ![r] = s]
    /\ intervention' = [intervention EXCEPT ![r] = NoIntervention]

\* __init__ has returned (line 44): only then is there a middleware to call
ConstructedMutWhileLoading == cpc # "init"
Constructed == cpc = "ready"

\* __call__, line 95: a request arrives and gets its transaction
CallMiddleware(r) ==
    /\ Constructed
    /\ pc[r] = "idle"
    /\ \E i \in 1..Len(RequestSamples) : request' = [request EXCEPT ![r] = i]
    /\ transaction' = [transaction EXCEPT ![r] = Transaction(r)]
    /\ pc' = [pc EXCEPT ![r] = "processConnection"]
    /\ UNCHANGED <<calls, site, intervention, hdrIdx, original_response, response>>
    /\ UNCHANGED loadVars

\* process_request, lines 112-116
ProcessConnection(r) ==
    /\ pc[r] = "processConnection"
    /\ EngineCall(r, "processConnection",
                  <<MetaGet(Req(r).META, REMOTE_ADDR), ParseInt(Req(r).port),
                    MetaGet(Req(r).META, SERVER_NAME),
                    ParseInt(MetaGet(Req(r).META, SERVER_PORT))>>,
                  "intervention")
    /\ EnterIntervention(r, 1)
    /\ UNCHANGED <<request, transaction, hdrIdx, original_response, response>>
    /\ UNCHANGED loadVars

\* what the engine has been told about transaction t: the phases completed
\* on it and the paths submitted to it, whoever made the calls
TxCalls(t, ops) ==
    {qi \in UNION {{<<q, i>> : i \in 1..Len(calls[q])} : q \in DOMAIN calls} :
        calls[qi[1]][qi[2]].op \in ops /\ calls[qi[1]][qi[2]].tx = t}
TxPhases(t) == Cardinality(TxCalls(t, {Phases[i] : i \in 1..Len(Phases)}))
TxPaths(t) == {calls[qi[1]][qi[2]].args[1] : qi \in TxCalls(t, {"processURI"})}

\* transaction.intervention(intervention), line 177: what the engine can
\* answer for transaction t. An engine with one rule answers from what the
\* transaction was fed: the rule's verdict at the check after the rule's
\* phase if the rule's path was submitted, nothing to do otherwise.
EngineAnswers(t) ==
    IF engine.kind = "free" THEN engine.answers
    ELSE {IF TxPhases(t) = engine.phase /\ engine.path \in TxPaths(t)
          THEN engine.verdict ELSE NoIntervention}

\* process_intervention, line 177: the engine is asked
Intervention(r) ==
    /\ pc[r] = "intervention"
    /\ \E v \in EngineAnswers(transaction[r]) :
         /\ intervention' = [intervention EXCEPT ![r] = v]
         /\ calls' = [calls EXCEPT ![r] = Append(@,
               Call("intervention", transaction[r], <<>>,
                    IF v.ret /\ v.disruptive THEN "disruptive" ELSE "pass"))]
    /\ pc' = [pc EXCEPT ![r] = "process_intervention"]
    /\ UNCHANGED <<request, transaction, site, hdrIdx, original_response,
                   response>>
    /\ UNCHANGED loadVars

\* process_intervention, lines 177-189, and what its caller does with the
\* answer, up to the return of __call__ when the answer ends the request
ProcessIntervention(r) ==
    /\ pc[r] = "process_intervention"
    /\ LET result == process_intervention(intervention[r])
       IN /\ logger' = InterventionLog(logger, intervention[r])
          /\ pc' = [pc EXCEPT ![r] = AfterIntervention(site[r], result)]
          /\ response' = [response EXCEPT ![r] =
                            ReturnedResponse(site[r], result, original_response[r])]
          /\ hdrIdx' = [hdrIdx EXCEPT ![r] = 1]
          /\ intervention' = [intervention EXCEPT ![r] =
                                IF result.kind # "None" THEN @ ELSE NoIntervention]
    /\ UNCHANGED <<request, transaction, calls, site, original_response>>
    /\ UNCHANGED <<settings, parser, engine, cpc, rule_files, rule_lines, rules_count,
                   loadCalls, call, before_count, matched, fileIdx, returned,
                   directCalls>>

\* process_request, line 122
ProcessURI(r) ==
    /\ pc[r] = "processURI"
    /\ EngineCall(r, "processURI", <<Req(r).path, Req(r).method, "1.1">>,
                  "intervention")
    /\ EnterIntervention(r, 2)
    /\ UNCHANGED <<request, transaction, hdrIdx, original_response, response>>
    /\ UNCHANGED loadVars

\* process_request, lines 127-128: one pass of the loop
AddRequestHeader(r) ==
    /\ pc[r] = "addRequestHeader"
    /\ hdrIdx[r] <= Len(IterHeaders(Req(r).META))
    /\ EngineCall(r, "addRequestHeader", IterHeaders(Req(r).META)[hdrIdx[r]],
                  "addRequestHeader")
    /\ hdrIdx' = [hdrIdx EXCEPT ![r] = @ + 1]
    /\ UNCHANGED <<request, transaction, site, intervention,
                   original_response, response>>
    /\ UNCHANGED loadVars

\* process_request, line 130: the loop is over
ProcessRequestHeaders(r) ==
    /\ pc[r] = "addRequestHeader"
    /\ hdrIdx[r] > Len(IterHeaders(Req(r).META))
    /\ EngineCall(r, "processRequestHeaders", <<>>, "intervention")
    /\ EnterIntervention(r, 3)
    /\ UNCHANGED <<request, transaction, hdrIdx, original_response, response>>
    /\ UNCHANGED loadVars

\* process_request, line 135
AppendRequestBody(r) ==
    /\ pc[r] = "appendRequestBody"
    /\ EngineCall(r, "appendRequestBody", <<Req(r).body>>, "processRequestBody")
    /\ UNCHANGED <<request, transaction, site, intervention, hdrIdx,
                   original_response, response>>
    /\ UNCHANGED loadVars

\* process_request, line 136
ProcessRequestBody(r) ==
    /\ pc[r] = "processRequestBody"
    /\ EngineCall(r, "processRequestBody", <<>>, "intervention")
    /\ EnterIntervention(r, 4)
    /\ UNCHANGED <<request, transaction, hdrIdx, original_response, response>>
    /\ UNCHANGED loadVars

\* __call__, line 103: the wrapped handler answers
GetResponse(r) ==
    /\ pc[r] = "get_response"
    /\ \E resp \in HandlerResponses :
         /\ original_response' = [original_response EXCEPT ![r] = resp]
         /\ calls' = [calls EXCEPT ![r] = Append(@, Call("get_response", 0, <<>>, resp))]
    /\ pc' = [pc EXCEPT ![r] = "addResponseHeader"]
    /\ hdrIdx' = [hdrIdx EXCEPT ![r] = 1]
    /\ UNCHANGED <<request, transaction, site, intervention, response>>
    /\ UNCHANGED loadVars

\* process_response, lines 150-151: one pass of the loop
AddResponseHeader(r) ==
    /\ pc[r] = "addResponseHeader"
    /\ hdrIdx[r] <= Len(original_response[r].headers)
    /\ EngineCall(r, "addResponseHeader", original_response[r].headers[hdrIdx[r]],
                  "addResponseHeader")
    /\ hdrIdx' = [hdrIdx EXCEPT ![r] = @ + 1]
    /\ UNCHANGED <<request, transaction, site, intervention,
                   original_response, response>>
    /\ UNCHANGED loadVars

\* process_response, lines 153-154: the loop is over
ProcessResponseHeaders(r) ==
    /\ pc[r] = "addResponseHeader"
    /\ hdrIdx[r] > Len(original_response[r].headers)
    /\ EngineCall(r, "processResponseHeaders",
                  <<original_response[r].status_code, "HTTP/1.1">>, "intervention")
    /\ EnterIntervention(r, 5)
    /\ UNCHANGED <<request, transaction, hdrIdx, original_response, response>>
    /\ UNCHANGED loadVars

\* process_response, line 160
AppendResponseBody(r) ==
    /\ pc[r] = "appendResponseBody"
    /\ EngineCall(r, "appendResponseBody", <<original_response[r].content>>,
                  "processResponseBody")
    /\ UNCHANGED <<request, transaction, site, intervention, hdrIdx,
                   original_response, response>>
    /\ UNCHANGED loadVars

\* process_response, line 161
ProcessResponseBody(r) ==
    /\ pc[r] = "processResponseBody"
    /\ EngineCall(r, "processResponseBody", <<>>, "intervention")
    /\ EnterIntervention(r, 6)
    /\ UNCHANGED <<request, transaction, hdrIdx, original_response, response>>
    /\ UNCHANGED loadVars

vars == <<loadVars, reqVars>>

NextConstruct == Construct \/ LoadRuleFile \/ LoadRuleFilesDone \/ ConstructLoadRules

NextRequest ==
    \E r \in DOMAIN pc :
        \/ CallMiddleware(r)
        \/ ProcessConnection(r)
        \/ Intervention(r)
        \/ ProcessIntervention(r)
        \/ ProcessURI(r)
        \/ AddRequestHeader(r)
        \/ ProcessRequestHeaders(r)
        \/ AppendRequestBody(r)
        \/ ProcessRequestBody(r)
        \/ GetResponse(r)
        \/ AddResponseHeader(r)
        \/ ProcessResponseHeaders(r)
        \/ AppendResponseBody(r)
        \/ ProcessResponseBody(r)

\* a deployment: the middleware is constructed, then serves requests
Next == NextConstruct \/ NextRequest

\* the load methods on their own: construction, then direct calls
NextLoad == NextConstruct \/ DirectLoadRuleFiles \/ DirectLoadRules

\* every configuration and every answer of the parser; no request arrives
InitLoad ==
    /\ settings \in [rule_files : RuleFilesSettings, rule_lines : RuleLinesSettings]
    /\ parser \in [uri : [Files -> LoadCounts], text : LoadCounts]
    /\ engine = AnyVerdict
    /\ InitLoadVars
    /\ InitReqVars

SpecLoad == InitLoad /\ [][NextLoad]_vars

\* one deployment: a glob with a good and a broken file, two inline rules
Init ==
    /\ settings = [rule_files |-> Str(<<"a*.conf">>),
                   rule_lines |-> List(<< <<"r">>, <<"r", "s">> >>)]
    /\ parser = [uri |-> [f \in Files |->
                            CASE f = "a1.conf" -> 2 [] f = "a2.conf" -> -1 [] OTHER -> 0],
                 text |-> 2]
    /\ engine = AnyVerdict
    /\ InitLoadVars
    /\ InitReqVars

Spec == Init /\ [][Next]_vars

\* the requests of one run
Handled == DOMAIN pc

\* engines with one rule each: a redirect for path /a once the URI is known,
\* a log record for path /a after the request headers, a 403 for path /
\* after the response headers
RuleSets == {
    [kind |-> "rule", phase |-> 2, path |-> "/a",
     verdict |-> [ret |-> TRUE, disruptive |-> TRUE, status |-> 200,
                  url |-> "/blocked", log |-> "matched"]],
    [kind |-> "rule", phase |-> 3, path |-> "/a",
     verdict |-> [ret |-> TRUE, disruptive |-> FALSE, status |-> 200,
                  url |-> "None", log |-> "matched"]],
    [kind |-> "rule", phase |-> 5, path |-> "/",
     verdict |-> [ret |-> TRUE, disruptive |-> TRUE, status |-> 403,
                  url |-> "None", log |-> "None"]] }

\* the same deployment with one of these engines, serving NumConcurrent
\* requests whose steps interleave freely
InitConcurrent ==
    /\ settings = [rule_files |-> Str(<<"a*.conf">>),
                   rule_lines |-> List(<< <<"r">>, <<"r", "s">> >>)]
    /\ parser = [uri |-> [f \in Files |->
                            CASE f = "a1.conf" -> 2 [] f = "a2.conf" -> -1 [] OTHER -> 0],
                 text |-> 2]
    /\ engine \in RuleSets
    /\ InitLoadVars
    /\ pc = [r \in 1..NumConcurrent |-> "idle"]
    /\ request = [r \in 1..NumConcurrent |-> 0]
    /\ transaction = [r \in 1..NumConcurrent |-> 0]
    /\ calls = [r \in 1..NumConcurrent |-> <<>>]
    /\ site = [r \in 1..NumConcurrent |-> 0]
    /\ intervention = [r \in 1..NumConcurrent |-> NoIntervention]
    /\ hdrIdx = [r \in 1..NumConcurrent |-> 0]
    /\ original_response = [r \in 1..NumConcurrent |-> NoResponse]
    /\ response = [r \in 1..NumConcurrent |-> NoResponse]

SpecConcurrent == InitConcurrent /\ [][Next]_vars

\* one verdict of each kind: nothing to do, a record to log and go on, a
\* status with nothing to log, a redirect with a record to log
VerdictKinds ==
    {NoIntervention,
     [ret |-> TRUE, disruptive |-> FALSE, status |-> 200, url |-> "None",
      log |-> "matched"],
     [ret |-> TRUE, disruptive |-> TRUE, status |-> 403, url |-> "None",
      log |-> "None"],
     [ret |-> TRUE, disruptive |-> TRUE, status |-> 200, url |-> "/blocked",
      log |-> "matched"]}

\* the deployment of Init with an engine that answers any of these at any
\* check: what is looked at is which calls a request makes, in which order
InitCalls ==
    /\ settings = [rule_files |-> Str(<<"a*.conf">>),
                   rule_lines |-> List(<< <<"r">>, <<"r", "s">> >>)]
    /\ parser = [uri |-> [f \in Files |->
                            CASE f = "a1.conf" -> 2 [] f = "a2.conf" -> -1 [] OTHER -> 0],
                 text |-> 2]
    /\ engine = [kind |-> "free", answers |-> VerdictKinds]
    /\ InitLoadVars
    /\ InitReqVars

SpecCalls == InitCalls /\ [][Next]_vars

\* the places of __call__ where the next thing done is a call on the
\* transaction or on the handler, or the reading of what is handed to it
\* (meta[...], int(...), request.body, original_response.getvalue())
RaisePoints ==
    {"processConnection", "processURI", "addRequestHeader", "appendRequestBody",
     "processRequestBody", "intervention", "get_response", "addResponseHeader",
     "appendResponseBody", "processResponseBody"}

\* lines 94-189 hold no try statement: an exception raised at a place of
\* __call__ or of a method it calls leaves __call__ from there
PropagateMutSwallowsBodyError(at) ==
    IF at = "appendRequestBody" THEN "processRequestBody" ELSE "raised"
Propagate(at) == "raised"

\* an exception leaves the call made at pc[r] (or the reading of its input)
RaiseAt(r, tx, what) ==
    /\ calls' = [calls EXCEPT ![r] = Append(@, Call("raise", tx, <<what>>, "raised"))]
    /\ pc' = [pc EXCEPT ![r] = Propagate(what)]

\* lines 112-161: a call on the transaction or on the handler raises
Raise(r) ==
    /\ pc[r] \in RaisePoints
    /\ RaiseAt(r, transaction[r], pc[r])
    /\ UNCHANGED <<request, transaction, site, intervention, hdrIdx,
                   original_response, response>>
    /\ UNCHANGED loadVars

\* line 180: self.logger.info(intervention.log) raises
LoggerRaises(r) ==
    /\ pc[r] = "process_intervention"
    /\ intervention[r].ret /\ intervention[r].log # "None"
    /\ RaiseAt(r, 0, "logger.info")
    /\ UNCHANGED <<request, transaction, site, intervention, hdrIdx,
                   original_response, response>>
    /\ UNCHANGED loadVars

\* the records the engine handed to modsecurity_log_callback so far
EngineRecords == {i \in 1..Len(logger) : logger[i][1] = "info" /\ logger[i][2] = "engine"}

\* modsecurity_log_callback, lines 46-47: the engine, about to work on the
\* URI of r's transaction, reports a record and the logger takes it
ModsecurityLogCallback(r) ==
    /\ pc[r] = "processURI"
    /\ Cardinality(EngineRecords) < MaxEngineRecords
    /\ logger' = Append(logger, <<"info", "engine">>)
    /\ UNCHANGED reqVars
    /\ UNCHANGED <<settings, parser, engine, cpc, rule_files, rule_lines, rules_count,
                   loadCalls, call, before_count, matched, fileIdx, returned,
                   directCalls>>

\* modsecurity_log_callback, line 47: self.logger.info(msg) raises inside
\* the engine's call, and the exception comes out of that call
ModsecurityLogCallbackRaises(r) ==
    /\ pc[r] = "processURI"
    /\ RaiseAt(r, 0, "modsecurity_log_callback")
    /\ UNCHANGED <<request, transaction, site, intervention, hdrIdx,
                   original_response, response>>
    /\ UNCHANGED loadVars

NextFail ==
    \/ Next
    \/ \E r \in DOMAIN pc :
          \/ Raise(r)
          \/ LoggerRaises(r)
          \/ ModsecurityLogCallback(r)
          \/ ModsecurityLogCallbackRaises(r)

\* what the engine answers in the runs with failures: nothing to do, a
\* status with nothing to log, a redirect with a record to log
FewVerdicts ==
    {NoIntervention,
     [ret |-> TRUE, disruptive |-> TRUE, status |-> 403, url |-> "None",
      log |-> "None"],
     [ret |-> TRUE, disruptive |-> TRUE, status |-> 200, url |-> "/blocked",
      log |-> "matched"]}

\* the deployment of Init, where calls and the logger can fail
InitFail ==
    /\ settings = [rule_files |-> Str(<<"a*.conf">>),
                   rule_lines |-> List(<< <<"r">>, <<"r", "s">> >>)]
    /\ parser = [uri |-> [f \in Files |->
                            CASE f = "a1.conf" -> 2 [] f = "a2.conf" -> -1 [] OTHER -> 0],
                 text |-> 2]
    /\ engine = [kind |-> "free", answers |-> FewVerdicts]
    /\ InitLoadVars
    /\ InitReqVars

SpecFail == InitFail /\ [][NextFail]_vars

\* -------------------------------------------------------- properties
PhaseSet == {Phases[i] : i \in 1..Len(Phases)}
ResponseSideOps ==
    {"addResponseHeader", "processResponseHeaders", "appendResponseBody",
     "processResponseBody"}
IsPhase(e) == e.op \in PhaseSet
IsCheck(e) == e.op = "intervention"
IsHandler(e) == e.op = "get_response"
\* the phase calls, the intervention checks and the handler calls of request r
PhaseCalls(r) == SelectSeq(calls[r], IsPhase)
Checks(r) == SelectSeq(calls[r], IsCheck)
HandlerCalls(r) == SelectSeq(calls[r], IsHandler)
\* the calls r made before its i-th
Before(r, i) == SubSeq(calls[r], 1, i - 1)
DisruptiveAt(r, i) == IsCheck(calls[r][i]) /\ calls[r][i].out = "disruptive"
\* some intervention check of r came back disruptive
Disrupted(r) == \E i \in 1..Len(calls[r]) : DisruptiveAt(r, i)
\* __call__ has returned
Done(r) == pc[r] = "done"
\* r is inside process_intervention and leaves it in this step
LeavesCheck(r) == pc[r] = "process_intervention" /\ pc'[r] # "process_intervention"

\* C1: the phase calls a request's transaction received are a prefix of
\* Connection, URI, RequestHeaders, RequestBody, ResponseHeaders, ResponseBody
\* (none twice, none before an earlier one, all on the request's transaction),
\* and a request that returned with no disruptive check ran all six.
C1_PhasesInOrder ==
    \A r \in Requests :
        LET ph == PhaseCalls(r)
        IN /\ Len(ph) <= Len(Phases)
           /\ \A i \in 1..Len(ph) : ph[i].op = Phases[i] /\ ph[i].tx = transaction[r]
           /\ (Done(r) /\ ~Disrupted(r)) => Len(ph) = Len(Phases)
C1_Witness ==
    \E r \in Requests : Done(r) /\ ~Disrupted(r) /\ Len(PhaseCalls(r)) = 6

\* C2: a disruptive intervention check is the last call the request makes
\* (no header, body, phase or check call follows it on the transaction), the
\* request then only returns, and what it returns is the verdict translated:
\* a redirect to the verdict's url, or a response with the verdict's status.
C2_HaltOnDisruptive ==
    \A r \in Requests : \A i \in 1..Len(calls[r]) :
        DisruptiveAt(r, i) =>
            /\ i = Len(calls[r])
            /\ pc[r] \in {"process_intervention", "done"}
            /\ intervention[r].ret /\ intervention[r].disruptive
            /\ Done(r) =>
                 /\ response[r].by = "middleware"
                 /\ IF intervention[r].url # "None"
                    THEN /\ response[r].kind = "HttpResponseRedirect"
                         /\ response[r].url = intervention[r].url
                    ELSE /\ response[r].kind = "HttpResponse"
                         /\ response[r].status_code = intervention[r].status
C2_Witness ==
    \E r \in Requests :
        /\ Done(r) /\ Disrupted(r)
        /\ Len(PhaseCalls(r)) = 2
        /\ response[r].kind = "HttpResponse" /\ response[r].status_code = 403

\* C3: get_response is called at most once per request; it is called only
\* after the four request phases and their four checks, none disruptive, and
\* before any response-side call; and a request that returned was handed to
\* it exactly when its first four checks were not disruptive.
C3_HandlerOnce ==
    \A r \in Requests :
        LET clear == /\ Len(Checks(r)) >= 4
                     /\ \A k \in 1..4 : Checks(r)[k].out = "pass"
        IN /\ Len(HandlerCalls(r)) <= 1
           /\ \A i \in 1..Len(calls[r]) :
                /\ IsHandler(calls[r][i]) =>
                     /\ Len(SelectSeq(Before(r, i), IsPhase)) = 4
                     /\ Len(SelectSeq(Before(r, i), IsCheck)) = 4
                     /\ clear
                /\ calls[r][i].op \in ResponseSideOps =>
                     Len(SelectSeq(Before(r, i), IsHandler)) = 1
           /\ Done(r) => (Len(HandlerCalls(r)) = 1 <=> clear)
C3_Witness ==
    \E r \in Requests :
        /\ Done(r)
        /\ Len(PhaseCalls(r)) = 4
        /\ Checks(r)[4].out = "disruptive"
        /\ Len(HandlerCalls(r)) = 0

\* C4: a request returns nothing before it is done and exactly one response
\* when it is: the middleware's substitute if and only if one of its checks
\* was disruptive, and otherwise the response get_response made; never None.
C4_OneResponse ==
    \A r \in Requests :
        /\ ~Done(r) => response[r] = NoResponse
        /\ Done(r) =>
             /\ response[r].kind # "None"
             /\ response[r].by \in {"middleware", "get_response"}
             /\ response[r].by = "middleware" <=> Disrupted(r)
             /\ response[r].by = "get_response" => Len(HandlerCalls(r)) = 1
C4_Witness ==
    \E r \in Requests :
        /\ Done(r) /\ Disrupted(r)
        /\ Len(HandlerCalls(r)) = 1
        /\ response[r].by = "middleware"

\* C5: a request that returned with no disruptive check returns the object
\* get_response produced, with the headers, status code and body it had.
C5_PassThroughUnchanged ==
    \A r \in Requests :
        (Done(r) /\ ~Disrupted(r)) =>
            /\ Len(HandlerCalls(r)) = 1
            /\ response[r] = HandlerCalls(r)[1].out
            /\ response[r].headers = HandlerCalls(r)[1].out.headers
            /\ response[r].status_code = HandlerCalls(r)[1].out.status_code
            /\ response[r].content = HandlerCalls(r)[1].out.content
C5_Witness ==
    \E r \in Requests :
        /\ Done(r) /\ ~Disrupted(r)
        /\ response[r].status_code = 200
        /\ Len(response[r].headers) = 2
        /\ response[r].content = "page"

\* C6: when process_intervention returns, a verdict that is not disruptive
\* ends nothing (no response of the middleware, whatever url and status), a
\* disruptive one with a url gives a redirect to that url whatever the status,
\* and a disruptive one without url gives an empty response with its status.
C6_Translation ==
    [][\A r \in Requests :
        LeavesCheck(r) =>
            LET iv == intervention[r]
            IN /\ ~(iv.ret /\ iv.disruptive) =>
                    /\ response'[r].by # "middleware"
                    /\ site[r] < 6 => (~Done(r)' /\ response'[r] = NoResponse)
               /\ (iv.ret /\ iv.disruptive /\ iv.url # "None") =>
                    /\ Done(r)'
                    /\ response'[r].kind = "HttpResponseRedirect"
                    /\ response'[r].url = iv.url
               /\ (iv.ret /\ iv.disruptive /\ iv.url = "None") =>
                    /\ Done(r)'
                    /\ response'[r].kind = "HttpResponse"
                    /\ response'[r].status_code = iv.status
                    /\ response'[r].content = ""]_vars
C6_Witness ==
    \E r \in Requests :
        /\ Done(r)
        /\ intervention[r].url = "/blocked" /\ intervention[r].status = 403
        /\ response[r].kind = "HttpResponseRedirect"
        /\ response[r].url = "/blocked"

\* where the pipeline goes on after the check of each of the first five phases
NextPhaseStart ==
    <<"processURI", "addRequestHeader", "appendRequestBody", "get_response",
      "appendResponseBody">>

\* C7: a verdict with a log text puts exactly one info record with that text
\* on the logger, disruptive or not, a verdict without one puts none, no other
\* step of a request logs, and after a verdict that is not disruptive the
\* request goes on with the next phase.
C7_LogOnceAndContinue ==
    [][/\ \A r \in Requests :
            LeavesCheck(r) =>
                LET iv == intervention[r]
                IN /\ (iv.ret /\ iv.log # "None") =>
                        logger' = Append(logger, <<"info", iv.log>>)
                   /\ iv.log = "None" => logger' = logger
                   /\ (iv.ret /\ ~iv.disruptive /\ site[r] < 6) =>
                        /\ pc'[r] = NextPhaseStart[site[r]]
                        /\ response'[r] = NoResponse
       /\ (cpc = "ready" /\ \A r \in Requests : ~LeavesCheck(r)) =>
            logger' = logger]_vars
C7_Witness ==
    \E r \in Requests :
        /\ pc[r] = "processURI"
        /\ \A q \in Requests \ {r} : pc[q] = "idle"
        /\ \E i \in 1..Len(logger) : logger[i][1] = "info" /\ logger[i][2] = "matched"

\* the engine calls and the log records of the load method last called
LoadsOfCall == SubSeq(loadCalls, call.at.loads + 1, Len(loadCalls))
LogsOfCall == SubSeq(logger, call.at.logs + 1, Len(logger))
IsFailedLoad(e) == e.count < 0
RECURSIVE SumAccepted(_)
\* the sum of the counts of the loads that did not fail
SumAccepted(loads) ==
    IF loads = <<>> THEN 0
    ELSE (IF Head(loads).count < 0 THEN 0 ELSE Head(loads).count)
         + SumAccepted(Tail(loads))

\* C8: load_rules with None or an empty text returns 0, calls the engine not
\* at all and leaves rules_count as it was; with any other text it hands the
\* text to the engine once, and when the engine accepts it (count >= 0) it
\* returns that count and rules_count has grown by exactly that count.
C8_LoadRules ==
    call.method = "load_rules" =>
        /\ returned.load_rules.called
        /\ IF call.arg.type = "None" \/ call.arg.val = <<>>
           THEN /\ returned.load_rules.value = 0
                /\ LoadsOfCall = <<>>
                /\ rules_count = call.at.rules_count
           ELSE /\ Len(LoadsOfCall) = 1
                /\ LoadsOfCall[1].op = "load"
                /\ LoadsOfCall[1].arg = call.arg.val
                /\ LoadsOfCall[1].count >= 0 =>
                     /\ returned.load_rules.value = LoadsOfCall[1].count
                     /\ returned.load_rules.value >= 0
                     /\ rules_count = call.at.rules_count + LoadsOfCall[1].count
C8_Witness ==
    /\ call.method = "load_rules"
    /\ call.at.rules_count > 0
    /\ Len(LoadsOfCall) = 1
    /\ LoadsOfCall[1].count = 2
    /\ returned.load_rules.value = 2
    /\ rules_count = call.at.rules_count + 2

\* C9: when a load method has returned, the number it reports is the sum of
\* the counts of its loads that did not fail, so a failed load adds 0 to it
\* and it is never negative; rules_count has grown by the same sum, and each
\* failed load has put one warning on the logger.
C9_FailedLoadAddsZero ==
    (cpc = "ready" /\ call.method # "None") =>
        /\ returned[call.method].called
        /\ returned[call.method].value = SumAccepted(LoadsOfCall)
        /\ returned[call.method].value >= 0
        /\ rules_count = call.at.rules_count + SumAccepted(LoadsOfCall)
        /\ Len(LogsOfCall) = Len(SelectSeq(LoadsOfCall, IsFailedLoad))
        /\ \A i \in 1..Len(LogsOfCall) : LogsOfCall[i][1] = "warning"

C11_RulesCountIsSumOfLoads ==
    /\ [](rules_count >= 0 /\ rules_count = SumAccepted(loadCalls))
    /\ [][/\ rules_count' >= rules_count
          /\ (rules_count' # rules_count =>
                /\ Len(loadCalls') = Len(loadCalls) + 1
                /\ SubSeq(loadCalls', 1, Len(loadCalls)) = loadCalls
                /\ loadCalls'[Len(loadCalls')].count >= 0
                /\ rules_count' = rules_count + loadCalls'[Len(loadCalls')].count)
          /\ (loadCalls = <<>> => rules_count = 0)]_vars
C11_Witness ==
    /\ rules_count = 4
    /\ Len(SelectSeq(loadCalls, IsFailedLoad)) >= 1
    /\ Len(loadCalls) >= 4
    /\ directCalls = 1
    /\ loadCalls[Len(loadCalls)].count < 0

\* C12: the constructor's loading is over before any request is handled,
\* and it is the only thing that changes the rule set and rules_count: a
\* step of a request hands nothing to the parser and leaves rules_count,
\* the loaded rules and the configured files and lines as they were, and a
\* step that loads or changes rules_count finds every request not yet begun.
C12_RequestsLoadNothing ==
    [][/\ (\E r \in Requests : pc'[r] # pc[r] \/ calls'[r] # calls[r]) =>
             /\ cpc = "ready" /\ cpc' = "ready"
             /\ rules_count' = rules_count
             /\ loadCalls' = loadCalls
             /\ rule_files' = rule_files /\ rule_lines' = rule_lines
       /\ (loadCalls' # loadCalls \/ rules_count' # rules_count) =>
             /\ cpc # "ready"
             /\ \A r \in Requests : pc[r] = "idle" /\ calls[r] = <<>>]_vars
C12_Witness ==
    /\ \E r \in Requests : Done(r) /\ ~Disrupted(r)
    /\ rules_count = 4
    /\ Len(loadCalls) = 3

\* the positions in r's calls of the calls of one method
CallsOf(r, op) == {i \in 1..Len(calls[r]) : calls[r][i].op = op}
\* a META key that begins with the five characters H T T P _
HasHttpPrefix(key) ==
    /\ Len(key) >= 5
    /\ key[1] = "H" /\ key[2] = "T" /\ key[3] = "T" /\ key[4] = "P" /\ key[5] = "_"
\* such a key without its first five characters
AfterHttpPrefix(key) == [i \in 1..(Len(key) - 5) |-> key[i + 5]]

\* C17: every call of addRequestHeader carries one META entry whose key
\* begins with HTTP_, the key without that prefix and the value as it is,
\* and goes to the request's transaction; no such entry is submitted twice;
\* processRequestHeaders is called at most once, after every header call,
\* and by then every such entry has been submitted exactly once.
C17_RequestHeaders ==
    \A r \in Requests : pc[r] # "idle" =>
        LET c == calls[r]
            meta == Req(r).META
            Sends(i, j) ==
                /\ c[i].op = "addRequestHeader"
                /\ c[i].args = <<AfterHttpPrefix(meta[j][1]), meta[j][2]>>
        IN \A i \in 1..Len(c) :
             /\ c[i].op = "addRequestHeader" =>
                   /\ c[i].tx = transaction[r]
                   /\ \E j \in 1..Len(meta) : HasHttpPrefix(meta[j][1]) /\ Sends(i, j)
                   /\ \A q \in 1..(i - 1) :
                         /\ c[q].op # "processRequestHeaders"
                         /\ c[q].op = "addRequestHeader" => c[q].args # c[i].args
             /\ c[i].op = "processRequestHeaders" =>
                   /\ \A q \in 1..(i - 1) : c[q].op # "processRequestHeaders"
                   /\ \A j \in 1..Len(meta) : HasHttpPrefix(meta[j][1]) =>
                         \E q \in 1..(i - 1) : Sends(q, j)
C17_Witness ==
    \E r \in Requests :
        /\ pc[r] # "idle" /\ request[r] = 1
        /\ CallsOf(r, "processRequestHeaders") # {}
        /\ Cardinality(CallsOf(r, "addRequestHeader")) = 2
        /\ \E i \in CallsOf(r, "addRequestHeader") :
             calls[r][i].args = << <<"X">>, "1" >>

\* the call at position i of r's calls is a body submission that comes
\* straight after a check that found nothing to do, itself straight after
\* the completion of the phase before
BodyInItsPhase(r, i, before) ==
    /\ i >= 3
    /\ calls[r][i - 1].op = "intervention"
    /\ calls[r][i - 1].out = "pass"
    /\ calls[r][i - 2].op = before
    /\ calls[r][i].tx = transaction[r]

\* C18: the request body is handed over in a single appendRequestBody, as
\* it is, straight before the single processRequestBody, and only once the
\* headers phase was let through; the response body likewise, in a single
\* appendResponseBody straight before the single processResponseBody, and
\* only once the handler has answered and the response headers were let
\* through. A request that is let through all phases has submitted both.
C18_BodiesOncePerPhase ==
    \A r \in Requests : pc[r] # "idle" =>
        LET c == calls[r]
            First(i) == \A q \in 1..(i - 1) : c[q].op # c[i].op
        IN /\ \A i \in 1..Len(c) :
                /\ c[i].op = "appendRequestBody" =>
                      /\ First(i)
                      /\ c[i].args = <<Req(r).body>>
                      /\ BodyInItsPhase(r, i, "processRequestHeaders")
                /\ c[i].op = "processRequestBody" =>
                      First(i) /\ c[i - 1].op = "appendRequestBody"
                /\ c[i].op = "appendResponseBody" =>
                      /\ First(i)
                      /\ c[i].args = <<original_response[r].content>>
                      /\ BodyInItsPhase(r, i, "processResponseHeaders")
                      /\ \E h \in 1..(i - 1) :
                            c[h].op = "get_response" /\ c[h].out = original_response[r]
                /\ c[i].op = "processResponseBody" =>
                      First(i) /\ c[i - 1].op = "appendResponseBody"
           /\ (Done(r) /\ ~Disrupted(r)) =>
                 /\ c[Len(c) - 2].op = "appendResponseBody"
                 /\ \E i \in 1..Len(c) : c[i].op = "appendRequestBody"
C18_Witness ==
    \E r \in Requests :
        /\ Done(r) /\ request[r] = 1
        /\ \E i \in CallsOf(r, "appendRequestBody") : calls[r][i].args = <<"payload">>
        /\ \E i \in CallsOf(r, "appendResponseBody") : calls[r][i].args = <<"page">>
        /\ CallsOf(r, "processResponseBody") # {}

\* C19: the call that follows the completion of a phase is an intervention
\* check on the same transaction, and every check follows such a completion
\* directly, so that no call of the next phase and no call of the handler
\* comes in between and no phase is checked twice; a request that returned
\* with no disruptive check made six checks, and one halted by the check
\* after its k-th phase made k.
C19_OneCheckPerPhase ==
    \A r \in Requests :
        LET c == calls[r]
            k == Len(PhaseCalls(r))
            checks == Checks(r)
        IN /\ \A i \in 1..Len(c) :
                /\ (IsPhase(c[i]) /\ i < Len(c)) =>
                       IsCheck(c[i + 1]) /\ c[i + 1].tx = c[i].tx
                /\ IsCheck(c[i]) =>
                       /\ i > 1 /\ IsPhase(c[i - 1])
                       /\ c[i].tx = transaction[r]
           /\ Len(checks) = IF pc[r] = "intervention" THEN k - 1 ELSE k
           /\ Done(r) =>
                 IF checks[k].out = "disruptive"
                 THEN /\ PhaseCalls(r)[k].op = Phases[k]
                      /\ \A j \in 1..(k - 1) : checks[j].out = "pass"
                 ELSE k = 6 /\ ~Disrupted(r)
C19_Witness ==
    /\ \E r \in Requests : Done(r) /\ ~Disrupted(r) /\ Len(Checks(r)) = 6
                           /\ HandlerCalls(r) # <<>>

\* r has entered __call__
Begun(r) == pc[r] # "idle"
\* two calls are the same call but for the transaction they went to
SameCall(a, b) == a.op = b.op /\ a.args = b.args /\ a.out = b.out

\* C13: whatever the interleaving, two requests never have the same
\* transaction; every engine call a request makes goes to its own
\* transaction, so that a transaction is called by one request only and in
\* that request's order, which is the order of the phases; and a request
\* stops before its sixth phase only on a disruptive check of its own, a
\* request none of whose checks was disruptive running all six phases and
\* returning the handler's response whatever happened to the others.
C13_OwnTransaction ==
    /\ \A r, q \in Handled :
          (r # q /\ Begun(r) /\ Begun(q)) => transaction[r] # transaction[q]
    /\ \A r \in Handled :
          /\ \A i \in 1..Len(calls[r]) :
                calls[r][i].tx = IF IsHandler(calls[r][i]) THEN 0 ELSE transaction[r]
          /\ \A i \in 1..Len(PhaseCalls(r)) : PhaseCalls(r)[i].op = Phases[i]
          /\ Done(r) =>
                IF Disrupted(r)
                THEN DisruptiveAt(r, Len(calls[r])) /\ response[r].by = "middleware"
                ELSE /\ Len(PhaseCalls(r)) = 6
                     /\ response[r] = original_response[r]
                     /\ response[r].by = "get_response"
C13_Witness ==
    \E r, q \in Handled :
        /\ Done(r) /\ Disrupted(r) /\ Len(PhaseCalls(r)) = 2
        /\ Done(q) /\ ~Disrupted(q) /\ Len(PhaseCalls(q)) = 6
        /\ request[r] = 1 /\ request[q] = 2

\* C14: of two requests with the same request data, and the same handler
\* response if the handler answered both, the calls of one (with what came
\* back from each, the transaction aside) are the beginning of the calls of
\* the other at every moment, and once both have returned their calls and
\* their responses are the same, however their steps were interleaved.
C14_SameInputsSameOutcome ==
    \A r, q \in Handled :
        (/\ r # q /\ Begun(r) /\ Begun(q)
         /\ request[r] = request[q]
         /\ (HandlerCalls(r) # <<>> /\ HandlerCalls(q) # <<>>) =>
                original_response[r] = original_response[q]) =>
        /\ \A i \in 1..Len(calls[r]) :
              i <= Len(calls[q]) => SameCall(calls[r][i], calls[q][i])
        /\ (Done(r) /\ Done(q)) =>
              /\ Len(calls[r]) = Len(calls[q])
              /\ response[r] = response[q]
C14_Witness ==
    \E r, q \in Handled :
        /\ r # q /\ Done(r) /\ Done(q)
        /\ request[r] = 1 /\ request[q] = 1
        /\ original_response[r] = original_response[q]
        /\ original_response[r].status_code = 200
        /\ Len(logger) = 3

\* the places where a phase is fed or completed, and those of them that
\* come before the handler
SubmissionPoints ==
    {"processConnection", "processURI", "addRequestHeader", "appendRequestBody",
     "processRequestBody", "addResponseHeader", "appendResponseBody",
     "processResponseBody"}
RequestSide ==
    {"processConnection", "processURI", "addRequestHeader", "appendRequestBody",
     "processRequestBody"}
\* the i-th call of r is one that raised, at one of the places in S
RaisedAt(r, i, S) == calls[r][i].op = "raise" /\ calls[r][i].args[1] \in S

\* C15: when feeding or completing a phase raises, that is the last thing
\* the request does: no call on the transaction or on the handler follows,
\* the request is left with the exception and with no response, neither the
\* handler's nor one made for an intervention, and when the failure is on
\* the request side the handler was never called.
C15_FailurePropagates ==
    \A r \in Requests : \A i \in 1..Len(calls[r]) :
        RaisedAt(r, i, SubmissionPoints) =>
            /\ i = Len(calls[r])
            /\ pc[r] = "raised"
            /\ response[r] = NoResponse
            /\ RaisedAt(r, i, RequestSide) => HandlerCalls(r) = <<>>
C15_Witness ==
    \E r \in Requests :
        /\ pc[r] = "raised"
        /\ RaisedAt(r, Len(calls[r]), {"appendResponseBody"})
        /\ HandlerCalls(r) # <<>>
        /\ Len(Checks(r)) = 5

\* C16: a request is never left with an exception that the logger raised,
\* be it while taking a record of the engine or the log text of a verdict.
C16_LoggerFailureContained ==
    \A r \in Requests :
        pc[r] = "raised" =>
            ~RaisedAt(r, Len(calls[r]), {"logger.info", "modsecurity_log_callback"})

====
